---- MODULE Spec2Model ----
\* Model of the APS demo workflows: main (the dual-job workflow: viewer
\* translation + Design Automation WorkItem), generate_pdf_with_da and
\* translate_dwg_for_viewer (the single-job workflows of src/main.py) and
\* process_cad_file as called from the web front end (src/tools.py,
\* src/app.py).  Every HTTP call the code issues is one step; the remote
\* service's answer to it is chosen nondeterministically.  Two small
\* specifications beside it model the token cache (SpecToken) and the
\* resource-name encoding (SpecEncode).
EXTENDS Integers, FiniteSets, Sequences, TLC

\* ---------------------------------------------------------------- bounds
\* Each track is probed at most MaxProbes times: the MaxProbes-th answer of
\* the service is a terminal status.
MaxProbes == 3
\* bytesUploaded of a WorkItem payload ranges over 0..MaxBytes.
MaxBytes == 2
\* The uploaded file holds at most MaxLen bytes.
MaxLen == 1
\* An object id holds at most MaxIdLen bytes.
MaxIdLen == 3
\* A process makes at most MaxTokenCalls calls of get_token.
MaxTokenCalls == 5

\* ------------------------------------------------- the remote service
\* A call that gets no HTTP answer (timeout=..., connection error): requests
\* raises a RequestException.  Written as the pseudo status 0.
NetErr == 0
\* HTTP answers of the service.  requests follows redirects itself, so the
\* answers the code sees are 2xx or 4xx/5xx.
StatusCodes == {200, 202, 404, 409, 500}
Answers == StatusCodes \cup {NetErr}

ByteSizes == 0..MaxBytes
DaStatuses == {"pending", "inprogress", "success", "failed", "cancelled", "failedUpload"}
\* The manifest's status field; "timeout" is a status of the service the
\* code does not list.
MdStatuses == {"pending", "inprogress", "success", "failed", "timeout"}
\* manifest.get("progress", "N/A")
MdProgress == {"N/A", "complete"}
\* The WorkItem status payload: status, stats.bytesUploaded, and whether a
\* reportUrl is present.
DaPayloads == [status : DaStatuses, bytesUploaded : ByteSizes, reportUrl : BOOLEAN]
\* da_final_status = None
NoStatus == [status |-> "none", bytesUploaded |-> 0, reportUrl |-> FALSE]

\* The bytes of the file to upload.
FileBytes == {0, 1}
Contents == UNION {[1..n -> FileBytes] : n \in 0..MaxLen}
\* An object of the bucket: absent, or finalized with its bytes.
NoObject == [present |-> FALSE, bytes |-> <<>>]

Workflows == {"main", "pdf", "viewer", "cad"}

\* The name of the output object: OUTPUT_PDF_FILE.name.
OutputName == "output"
\* What a signeds3upload request returns: a write URL and an upload key,
\* both of the object and the request they were issued for.
SignedUploadData(object, request) ==
    [url |-> [kind |-> "url", object |-> object, request |-> request],
     uploadKey |-> [kind |-> "key", object |-> object, request |-> request]]
NoKey == [kind |-> "none", object |-> "none", request |-> "none"]

\* The HTTP calls, in the order the code issues them.
SetupCalls == {"auth", "bucket", "up_presign", "up_put", "up_finalize",
               "ph_presign", "ph_put", "ph_finalize", "md_submit",
               "signed_read", "signed_upload", "da_submit"}
LoopCalls == {"md_probe", "da_probe", "da_report"}
FinalCalls == {"finalize", "dl_signed", "dl_get"}
Calls == SetupCalls \cup LoopCalls \cup FinalCalls

\* The credential pairs of the token cache, and the bytes of an object id.
Pairs == {"A", "B"}
NoPair == "none"
NoEntry == [pair |-> NoPair, token |-> 0]
\* "/", ":", "?" and "~"
IdBytes == {47, 58, 63, 126}
IdTexts == UNION {[1..n -> IdBytes] : n \in 0..MaxIdLen}

VARIABLES
    workflow,         \* which entry point runs
    inputExists,      \* main.py: the input file exists; app.py: the credentials are set
    bucketExists,     \* service side: the bucket key is taken
    file_content,     \* file_content: the bytes to upload
    pc,               \* the next call / statement of the run
    md_finished,      \* md_finished
    da_finished,      \* main: da_finished
    da_final_status,  \* da_final_status
    file_size,        \* file_size handed to finalize_da_upload
    md_status,        \* md_status of the latest translation probe
    md_progress,      \* md_progress of the latest translation probe
    da_status,        \* da_status of the latest WorkItem probe
    error,            \* which exception ended the run, "none" if none
    calls,            \* history: number of times each call was issued
    lastAnswer,       \* history: the latest call and the service's answer
    accepted,         \* history: the one-time calls answered 2xx
    putData,          \* history: body of the upload's PUT
    upSize,           \* history: "size" of the upload's finalize request
    stored,           \* service side: the source object as finalized
    phPutData,        \* history: body of the placeholder's PUT
    phSize,           \* history: "size" of the placeholder's finalize request
    finalizeSize,     \* history: "size" of the finalize_da_upload request
    finalizeOk,       \* history: finalize_da_upload returned normally
    mdResult,         \* history: terminal status the service gave for MD
    daResult,         \* history: terminal payload the service gave for DA
    daSuccessAt,      \* history: index of the WorkItem probe answered success
    loopDone,         \* history: the polling loop was left by its own test / break
    daProbeErrors,    \* history: some WorkItem probe raised
    mdRetryPending,   \* history: MD probe error swallowed, not yet re-probed
    daRetryPending,   \* history: DA probe error swallowed, not yet re-probed
    iteration,        \* history: iterations of the polling loop begun
    sleepTime,        \* history: time slept in the polling loop
    phUploadKey,      \* create_placeholder_object_via_s3: signed_url_data["uploadKey"]
    output_pdf_url,   \* output_pdf_url
    da_upload_key,    \* da_upload_key
    workItemOutput,   \* history: the Result url of the WorkItem request
    finalizeKey,      \* history: "uploadKey" of the finalize_da_upload request
    finalizeName,     \* history: object name of the finalize_da_upload request
    tokenCache,       \* SpecToken: the entry held by lru_cache(maxsize=1)
    exchanges,        \* SpecToken: successful token exchanges per credential pair
    tokenCalls,       \* SpecToken: calls of get_token made so far
    lastToken,        \* SpecToken: the latest call: pair, token returned, exchanged
    encIn,            \* SpecEncode: the object id
    encOut            \* SpecEncode: the URNs computed from it, in order

progVars == <<md_finished, da_finished, da_final_status, file_size>>
statVars == <<md_status, md_progress, da_status>>
upVars == <<putData, upSize, stored, phPutData, phSize>>
histVars == <<finalizeSize, finalizeOk, mdResult, daResult, daSuccessAt,
              loopDone, daProbeErrors, mdRetryPending, daRetryPending>>
loopVars == <<iteration, sleepTime>>
keyVars == <<phUploadKey, output_pdf_url, da_upload_key, workItemOutput,
             finalizeKey, finalizeName>>
envVars == <<workflow, inputExists, bucketExists, file_content>>
tokenVars == <<tokenCache, exchanges, tokenCalls, lastToken>>
encVars == <<encIn, encOut>>
runVars == <<workflow, inputExists, bucketExists, file_content, pc, md_finished,
             da_finished, da_final_status, file_size, md_status, md_progress,
             da_status, error, calls, lastAnswer, accepted, putData, upSize,
             stored, phPutData, phSize, finalizeSize, finalizeOk, mdResult,
             daResult, daSuccessAt, loopDone, daProbeErrors, mdRetryPending,
             daRetryPending, iteration, sleepTime, phUploadKey, output_pdf_url,
             da_upload_key, workItemOutput, finalizeKey, finalizeName>>
vars == <<runVars, tokenVars, encVars>>

\* ------------------------------------------------------------- helpers
\* requests.Response.raise_for_status: HTTPError for 4xx and 5xx.
raise_for_status_5xx(code) == code >= 500 /\ code < 600
raise_for_status(code) == code >= 400 /\ code < 600

\* A requests call followed by raise_for_status raises a RequestException.
Raises_OnlyNetErr(a) == a = NetErr
Raises(a) == a = NetErr \/ raise_for_status(a)

\* create_bucket_if_not_exists: if status_code not in [200, 409]: raise_for_status()
BucketCreateRaises_No409(a) == a = NetErr \/ (a # 200 /\ raise_for_status(a))
BucketCreateRaises(a) == a = NetErr \/ (a \notin {200, 409} /\ raise_for_status(a))

Min(a, b) == IF a < b THEN a ELSE b

\* The service accepted the request.
Is2xx(a) == a >= 200 /\ a <= 299

Bump(f, c) == [f EXCEPT ![c] = Min(@ + 1, MaxProbes + 1)]

\* One more issue of call c, answered a.
Issue(c, a) ==
    /\ calls' = Bump(calls, c)
    /\ lastAnswer' = [call |-> c, code |-> a]
    /\ accepted' = IF c \notin LoopCalls /\ Is2xx(a) THEN accepted \cup {c} ELSE accepted

\* except requests.exceptions.RequestException (main 319, generate_pdf_with_da
\* 386, translate_dwg_for_viewer 432); process_cad_file has no handler, the
\* exception leaves it.
RequestFailed ==
    /\ pc' = "exit"
    /\ error' = "request_failed"
    /\ UNCHANGED <<tokenVars, encVars>>

\* except (RuntimeError, KeyError, ValueError, FileNotFoundError); vkt.UserError
RuntimeFailed(kind) ==
    /\ pc' = "exit"
    /\ error' = kind
    /\ UNCHANGED <<tokenVars, encVars>>

Goto(next) ==
    /\ pc' = next
    /\ error' = error
    /\ UNCHANGED <<tokenVars, encVars>>

\* The token cache and the encoder at rest.
TokenIdle ==
    /\ tokenCache = NoEntry
    /\ exchanges = [p \in Pairs |-> 0]
    /\ tokenCalls = 0
    /\ lastToken = [pair |-> NoPair, token |-> 0, exchanged |-> FALSE]

EncodeIdle ==
    /\ encIn = <<>>
    /\ encOut = <<>>

\* A run at its first statement.
RunStart ==
    /\ pc = "start"
    /\ md_finished = FALSE
    /\ da_finished = FALSE
    /\ da_final_status = NoStatus
    /\ file_size = 0
    /\ md_status = "none"
    /\ md_progress = "none"
    /\ da_status = "none"
    /\ error = "none"
    /\ calls = [c \in Calls |-> 0]
    /\ lastAnswer = [call |-> "none", code |-> NetErr]
    /\ accepted = {}
    /\ putData = <<>>
    /\ upSize = 0
    /\ stored = NoObject
    /\ phPutData = <<>>
    /\ phSize = 0
    /\ finalizeSize = 0
    /\ finalizeOk = FALSE
    /\ mdResult = "none"
    /\ daResult = NoStatus
    /\ daSuccessAt = 0
    /\ loopDone = FALSE
    /\ daProbeErrors = FALSE
    /\ mdRetryPending = FALSE
    /\ daRetryPending = FALSE
    /\ iteration = 0
    /\ sleepTime = 0
    /\ phUploadKey = NoKey
    /\ output_pdf_url = NoKey
    /\ da_upload_key = NoKey
    /\ workItemOutput = NoKey
    /\ finalizeKey = NoKey
    /\ finalizeName = "none"

Init ==
    /\ workflow \in Workflows
    /\ inputExists \in BOOLEAN
    /\ bucketExists \in BOOLEAN
    /\ file_content \in Contents
    /\ RunStart
    /\ TokenIdle
    /\ EncodeIdle

\* ------------------------------------------------------- one-time setup
\* main.py: if not INPUT_DWG_FILE.exists(): raise FileNotFoundError (before
\* the try); app.py: if not client_id or not client_secret: raise UserError
CheckInput ==
    /\ pc = "start"
    /\ IF inputExists THEN Goto("auth")
       ELSE IF workflow = "cad" THEN RuntimeFailed("no_credentials")
       ELSE RuntimeFailed("file_not_found")
    /\ UNCHANGED <<envVars, progVars, statVars, upVars, histVars, loopVars, keyVars,
                   calls, lastAnswer, accepted>>

\* A request followed by raise_for_status.
CallStep(c, next) ==
    /\ pc = c
    /\ \E a \in Answers :
        /\ Issue(c, a)
        /\ IF Raises(a) THEN RequestFailed ELSE Goto(next)
    /\ UNCHANGED <<envVars, progVars, statVars, histVars, loopVars>>

\* A setup call that is a single request followed by raise_for_status.
SetupCall(c, next) ==
    /\ CallStep(c, next)
    /\ UNCHANGED <<upVars, keyVars>>

get_token == SetupCall("auth", "bucket")

\* The service answers 409 for a bucket key that is taken and 200 for one it
\* creates.
BucketAnswers == (IF bucketExists THEN {409} ELSE {200, 202}) \cup {404, 500, NetErr}

create_bucket_if_not_exists ==
    /\ pc = "bucket"
    /\ \E a \in BucketAnswers :
        /\ Issue("bucket", a)
        /\ IF BucketCreateRaises(a) THEN RequestFailed ELSE Goto("up_presign")
        /\ bucketExists' = (bucketExists \/ a \in {200, 202})
    /\ UNCHANGED <<workflow, inputExists, file_content, progVars, statVars,
                   upVars, histVars, loopVars, keyVars>>

\* After the upload: the workflows with a WorkItem create the placeholder,
\* the translation-only workflows submit the job.
AfterUpload_NoPlaceholder == "md_submit"
AfterUpload == IF workflow \in {"main", "pdf"} THEN "ph_presign" ELSE "md_submit"

\* requests.put(..., data=file_content)
PutBody_Empty(content) == <<>>
PutBody(content) == content
\* "size": len(file_content)
UploadSize_Zero(content) == 0
UploadSize(content) == Len(content)

\* The store at finalize: the bytes received at the write target become the
\* object when the declared size is their length; with another size the
\* outcome is undefined.
StoreCommit(data, size) ==
    IF size = Len(data)
    THEN {[present |-> TRUE, bytes |-> data]}
    ELSE {[present |-> TRUE, bytes |-> c] : c \in Contents}

\* upload_file_via_s3 / upload_to_OSS: presign, PUT of the bytes, finalize
UploadPresign == SetupCall("up_presign", "up_put")

UploadPut ==
    /\ CallStep("up_put", "up_finalize")
    /\ putData' = PutBody(file_content)
    /\ UNCHANGED <<upSize, stored, phPutData, phSize, keyVars>>

UploadFinalize ==
    /\ CallStep("up_finalize", AfterUpload)
    /\ upSize' = UploadSize(file_content)
    /\ IF Is2xx(lastAnswer'.code)
       THEN stored' \in StoreCommit(putData, upSize')
       ELSE stored' = stored
    /\ UNCHANGED <<putData, phPutData, phSize, keyVars>>

\* After the placeholder: main submits the translation job, the PDF workflow
\* goes on to the signed URLs.
AfterPlaceholder == IF workflow = "main" THEN "md_submit" ELSE "signed_read"

\* if get_url_response.status_code == 409: return
PlaceholderExists_Never(a) == FALSE
PlaceholderExists(a) == a = 409

\* create_placeholder_object_via_s3: a 409 on the presign request returns at once
PlaceholderPresign ==
    /\ pc = "ph_presign"
    /\ \E a \in Answers :
        /\ Issue("ph_presign", a)
        /\ IF PlaceholderExists(a)
           THEN Goto(AfterPlaceholder) /\ phUploadKey' = phUploadKey
           ELSE IF Raises(a)
           THEN RequestFailed /\ phUploadKey' = phUploadKey
           ELSE \* signed_url_data = get_url_response.json()
                /\ Goto("ph_put")
                /\ phUploadKey' = SignedUploadData(OutputName, "ph_presign").uploadKey
    /\ UNCHANGED <<envVars, progVars, statVars, upVars, histVars, loopVars,
                   output_pdf_url, da_upload_key, workItemOutput, finalizeKey,
                   finalizeName>>

\* requests.put(..., data=b""); "size": 0
PlaceholderBody == <<>>
PlaceholderSize == 0

PlaceholderPut ==
    /\ CallStep("ph_put", "ph_finalize")
    /\ phPutData' = PlaceholderBody
    /\ UNCHANGED <<putData, upSize, stored, phSize, keyVars>>

PlaceholderFinalize ==
    /\ CallStep("ph_finalize", AfterPlaceholder)
    /\ phSize' = PlaceholderSize
    /\ UNCHANGED <<putData, upSize, stored, phPutData, keyVars>>

\* After the job submission: main goes on to the signed URLs, the
\* translation-only workflows start polling.
AfterSubmit == IF workflow = "main" THEN "signed_read" ELSE "md_step"

start_svf_translation_job ==
    /\ workflow \in {"main", "viewer", "cad"}
    /\ SetupCall("md_submit", AfterSubmit)

get_signed_url == SetupCall("signed_read", "signed_upload")

\* get_signed_s3_upload_url(token, OUTPUT_PDF_FILE.name): the URL and the
\* upload key of one answer
get_signed_s3_upload_url ==
    /\ CallStep("signed_upload", "da_submit")
    /\ IF Raises(lastAnswer'.code)
       THEN UNCHANGED <<output_pdf_url, da_upload_key>>
       ELSE /\ output_pdf_url' = SignedUploadData(OutputName, "signed_upload").url
            /\ da_upload_key' = SignedUploadData(OutputName, "signed_upload").uploadKey
    /\ UNCHANGED <<upVars, phUploadKey, workItemOutput, finalizeKey, finalizeName>>

\* start_da_work_item, then the polling loop is entered
LoopEntry == IF workflow = "main" THEN "md_step" ELSE "da_step"
\* "Result": {"url": output_url, "verb": "put"}
WorkItemResult == output_pdf_url

start_da_work_item ==
    /\ CallStep("da_submit", LoopEntry)
    /\ workItemOutput' = WorkItemResult
    /\ UNCHANGED <<upVars, phUploadKey, output_pdf_url, da_upload_key, finalizeKey,
                   finalizeName>>

Setup ==
    \/ CheckInput
    \/ get_token
    \/ create_bucket_if_not_exists
    \/ UploadPresign
    \/ UploadPut
    \/ UploadFinalize
    \/ PlaceholderPresign
    \/ PlaceholderPut
    \/ PlaceholderFinalize
    \/ start_svf_translation_job
    \/ get_signed_url
    \/ get_signed_s3_upload_url
    \/ start_da_work_item

\* ------------------------------------------- the dual-job loop of main
\* The service's answers are bounded: the MaxProbes-th probe of a track is
\* answered with a terminal status.
MayAnswer(c, a, terminal) == calls[c] < MaxProbes - 1 \/ (a \in {200} /\ terminal)

\* if md_status in ["success", "failed"]
MdTerminal_OnlySuccess(s) == s = "success"
MdTerminal_Any(s) == TRUE
MdTerminal(s) == s \in {"success", "failed"}
\* if da_status in ["success", "failed", "cancelled", "failedUpload"]
DaTerminal(s) == s \in {"success", "failed", "cancelled", "failedUpload"}

\* da_final_status = status_data
RecordFinal_None(p) == NoStatus
RecordFinal(p) == p

\* if not md_finished: / if not da_finished:
MdShouldProbe_Always == TRUE
MdShouldProbe == ~md_finished
DaShouldProbe_Always == TRUE
DaShouldProbe == ~da_finished

\* if md_status == "failed": raise RuntimeError
MdRaises_Never(s) == FALSE
MdRaises(s) == s = "failed"
\* if da_status != "success": raise RuntimeError
DaRaises(s) == s # "success"

\* get_svf_translation_status: 202 is "inprogress" / "Manifest not ready",
\* otherwise the manifest's status and progress
ManifestStatus_No202(a, s) == s
ManifestStatus(a, s) == IF a = 202 THEN "inprogress" ELSE s
ManifestProgress(a, g) == IF a = 202 THEN "Manifest not ready" ELSE g

\* time.sleep(10)
SleepInterval == 10
\* The loop body is entered once more.
BeginIteration == iteration' = Min(iteration + 1, MaxProbes + 1)
SleepOnce == sleepTime' = Min(sleepTime + SleepInterval, SleepInterval * (MaxProbes + 1))
NoSleep == sleepTime' = sleepTime

MdSkip ==
    /\ workflow = "main"
    /\ pc = "md_step"
    /\ ~MdShouldProbe
    /\ Goto("da_step")
    /\ BeginIteration
    /\ NoSleep
    /\ UNCHANGED <<envVars, progVars, statVars, upVars, keyVars, histVars, calls,
                   lastAnswer, accepted>>

MdProbe ==
    /\ workflow = "main"
    /\ pc = "md_step"
    /\ MdShouldProbe
    /\ BeginIteration
    /\ NoSleep
    /\ \E a \in Answers :
        /\ Issue("md_probe", a)
        /\ IF Raises(a)
           THEN \* except RequestException: print, go on with the DA track
                /\ MayAnswer("md_probe", a, FALSE)
                /\ Goto("da_step")
                /\ mdRetryPending' = TRUE
                /\ UNCHANGED <<md_finished, mdResult, md_status, md_progress>>
           ELSE \E s \in MdStatuses, g \in MdProgress :
                LET status == ManifestStatus(a, s) IN
                /\ MayAnswer("md_probe", a, MdTerminal(status))
                /\ mdRetryPending' = FALSE
                /\ md_status' = status
                /\ md_progress' = ManifestProgress(a, g)
                /\ IF MdTerminal(status)
                   THEN /\ md_finished' = TRUE
                        /\ mdResult' = status
                        /\ IF MdRaises(status)
                           THEN RuntimeFailed("md_failed")
                           ELSE Goto("da_step")
                   ELSE /\ Goto("da_step")
                        /\ UNCHANGED <<md_finished, mdResult>>
    /\ UNCHANGED <<envVars, da_finished, da_final_status, file_size, da_status,
                   upVars, keyVars, finalizeSize, finalizeOk, daResult, daSuccessAt,
                   loopDone, daProbeErrors, daRetryPending>>

DaSkip ==
    /\ workflow = "main"
    /\ pc = "da_step"
    /\ ~DaShouldProbe
    /\ Goto("sleep")
    /\ UNCHANGED <<envVars, progVars, statVars, upVars, keyVars, histVars, loopVars, calls,
                   lastAnswer, accepted>>

\* The answers of the report host: requests.get(da_report_url).text has no
\* raise_for_status, only a missing answer raises.
ReportAnswers == {200, NetErr}

\* The status probe and the report fetch that follows it.
IssueWithReport(rep) ==
    /\ calls' = Bump(Bump(calls, "da_probe"), "da_report")
    /\ lastAnswer' = [call |-> "da_report", code |-> rep]
    /\ accepted' = accepted

DaProbe ==
    /\ workflow = "main"
    /\ pc = "da_step"
    /\ DaShouldProbe
    /\ \E a \in Answers :
        IF Raises(a)
           THEN \* except RequestException: print, retry on the next iteration
                /\ MayAnswer("da_probe", a, FALSE)
                /\ Issue("da_probe", a)
                /\ Goto("sleep")
                /\ daRetryPending' = TRUE
                /\ daProbeErrors' = TRUE
                /\ UNCHANGED <<da_finished, da_final_status, da_status, daResult,
                               daSuccessAt>>
           ELSE \E p \in DaPayloads :
                /\ MayAnswer("da_probe", a, DaTerminal(p.status))
                /\ daRetryPending' = FALSE
                /\ daProbeErrors' = daProbeErrors
                /\ da_status' = p.status
                /\ IF DaTerminal(p.status)
                   THEN /\ da_finished' = TRUE
                        /\ da_final_status' = RecordFinal(p)
                        /\ daResult' = p
                        /\ daSuccessAt' = IF p.status = "success"
                                          THEN Bump(calls, "da_probe")["da_probe"]
                                          ELSE daSuccessAt
                        /\ IF p.reportUrl
                           THEN \E rep \in ReportAnswers :
                                /\ IssueWithReport(rep)
                                /\ IF rep = NetErr
                                   THEN \* the report fetch raised: swallowed as well
                                        Goto("sleep")
                                   ELSE IF DaRaises(p.status)
                                        THEN RuntimeFailed("da_failed")
                                        ELSE Goto("sleep")
                           ELSE /\ Issue("da_probe", a)
                                /\ IF DaRaises(p.status)
                                   THEN RuntimeFailed("da_failed")
                                   ELSE Goto("sleep")
                   ELSE /\ Issue("da_probe", a)
                        /\ Goto("sleep")
                        /\ UNCHANGED <<da_finished, da_final_status, daResult, daSuccessAt>>
    /\ UNCHANGED <<envVars, md_finished, file_size, md_status, md_progress, upVars, keyVars, loopVars,
                   finalizeSize, finalizeOk, mdResult, loopDone, mdRetryPending>>

\* if not md_finished or not da_finished: time.sleep(10)
ShouldSleep_Always == TRUE
ShouldSleep == ~md_finished \/ ~da_finished
\* while not md_finished or not da_finished
LoopGoesOn == ~md_finished \/ ~da_finished

\* The end of the loop body: the sleep under its test, then the while test.
Sleep ==
    /\ workflow = "main"
    /\ pc = "sleep"
    /\ IF ShouldSleep THEN SleepOnce ELSE NoSleep
    /\ IF LoopGoesOn
       THEN /\ Goto("md_step")
            /\ loopDone' = loopDone
       ELSE /\ Goto("post_loop")
            /\ loopDone' = TRUE
    /\ UNCHANGED <<envVars, progVars, statVars, upVars, keyVars, iteration, finalizeSize, finalizeOk,
                   mdResult, daResult, daSuccessAt, daProbeErrors, mdRetryPending,
                   daRetryPending, calls, lastAnswer, accepted>>

\* if da_final_status and da_final_status["status"] == "success"
CanFinalize_Always(st) == TRUE
CanFinalize(st) == st # NoStatus /\ st.status = "success"

\* file_size = da_final_status["stats"]["bytesUploaded"]
FileSizeOf_Zero(st) == 0
FileSizeOf(st) == st.bytesUploaded

PostLoop ==
    /\ workflow = "main"
    /\ pc = "post_loop"
    /\ IF CanFinalize(da_final_status)
       THEN /\ file_size' = FileSizeOf(da_final_status)
            /\ Goto("finalize")
       ELSE /\ file_size' = file_size
            /\ IF da_final_status = NoStatus
               THEN \* da_final_status['status'] on None: TypeError, not caught
                    RuntimeFailed("type_error")
               ELSE RuntimeFailed("finalize_precondition")
    /\ UNCHANGED <<envVars, md_finished, da_finished, da_final_status, statVars,
                   upVars, keyVars, histVars, loopVars, calls, lastAnswer, accepted>>

\* ------------------------------- the single-job loop of generate_pdf_with_da
DaProbePdf ==
    /\ workflow = "pdf"
    /\ pc = "da_step"
    /\ BeginIteration
    /\ \E a \in Answers :
        IF Raises(a)
           THEN \* no try around the probe: the outer except ends the run
                /\ MayAnswer("da_probe", a, FALSE)
                /\ Issue("da_probe", a)
                /\ RequestFailed
                /\ NoSleep
                /\ daProbeErrors' = TRUE
                /\ UNCHANGED <<da_final_status, file_size, da_status, daResult,
                               daSuccessAt, loopDone>>
           ELSE \E p \in DaPayloads :
                \E rep \in (IF p.reportUrl THEN ReportAnswers ELSE {200}) :
                /\ MayAnswer("da_probe", a, DaTerminal(p.status))
                /\ daProbeErrors' = daProbeErrors
                /\ da_status' = p.status
                /\ IF DaTerminal(p.status)
                   THEN /\ NoSleep
                        /\ da_final_status' = RecordFinal(p)
                        /\ daResult' = p
                        /\ daSuccessAt' = IF p.status = "success"
                                          THEN Bump(calls, "da_probe")["da_probe"]
                                          ELSE daSuccessAt
                        /\ IF p.reportUrl
                           THEN IssueWithReport(rep)
                           ELSE Issue("da_probe", a)
                        /\ IF p.reportUrl /\ rep = NetErr
                           THEN /\ RequestFailed
                                /\ UNCHANGED <<file_size, loopDone>>
                           ELSE IF DaRaises(p.status)
                                THEN /\ RuntimeFailed("da_failed")
                                     /\ UNCHANGED <<file_size, loopDone>>
                                ELSE \* break; file_size = da_final_status[...]
                                     /\ Goto("finalize")
                                     /\ file_size' = FileSizeOf(p)
                                     /\ loopDone' = TRUE
                   ELSE \* time.sleep(10), next probe
                        /\ Issue("da_probe", a)
                        /\ SleepOnce
                        /\ Goto("da_step")
                        /\ UNCHANGED <<da_final_status, file_size, daResult, daSuccessAt,
                                       loopDone>>
    /\ UNCHANGED <<envVars, md_finished, da_finished, md_status, md_progress,
                   upVars, keyVars, finalizeSize, finalizeOk, mdResult, mdRetryPending,
                   daRetryPending>>

\* --------------------------- the single-job loop of translate_dwg_for_viewer
MdProbeViewer ==
    /\ workflow = "viewer"
    /\ pc = "md_step"
    /\ BeginIteration
    /\ \E a \in Answers :
        /\ Issue("md_probe", a)
        /\ IF Raises(a)
           THEN \* no try around the probe: the outer except ends the run
                /\ MayAnswer("md_probe", a, FALSE)
                /\ RequestFailed
                /\ NoSleep
                /\ UNCHANGED <<md_status, md_progress, mdResult, loopDone>>
           ELSE \E s \in MdStatuses, g \in MdProgress :
                LET status == ManifestStatus(a, s) IN
                /\ MayAnswer("md_probe", a, MdTerminal(status))
                /\ md_status' = status
                /\ md_progress' = ManifestProgress(a, g)
                /\ IF MdTerminal(status)
                   THEN /\ NoSleep
                        /\ mdResult' = status
                        /\ IF MdRaises(status)
                           THEN /\ RuntimeFailed("md_failed")
                                /\ loopDone' = loopDone
                           ELSE \* break: the URN is printed, the run is complete
                                /\ Goto("exit")
                                /\ loopDone' = TRUE
                   ELSE \* time.sleep(10), next probe
                        /\ SleepOnce
                        /\ Goto("md_step")
                        /\ UNCHANGED <<mdResult, loopDone>>
    /\ UNCHANGED <<envVars, progVars, da_status, upVars, keyVars, finalizeSize, finalizeOk,
                   daResult, daSuccessAt, daProbeErrors, mdRetryPending,
                   daRetryPending>>

\* ------------------------------------ the loop of process_cad_file (tools.py)
MdProbeCad ==
    /\ workflow = "cad"
    /\ pc = "md_step"
    /\ BeginIteration
    /\ \E a \in Answers :
        /\ Issue("md_probe", a)
        /\ IF Raises(a)
           THEN \* except RequestException: message, sleep, next probe
                /\ MayAnswer("md_probe", a, FALSE)
                /\ SleepOnce
                /\ Goto("md_step")
                /\ mdRetryPending' = TRUE
                /\ UNCHANGED <<md_finished, md_status, md_progress, mdResult, loopDone>>
           ELSE \E s \in MdStatuses, g \in MdProgress :
                LET status == ManifestStatus(a, s) IN
                /\ MayAnswer("md_probe", a, MdTerminal(status))
                /\ mdRetryPending' = FALSE
                /\ md_status' = status
                /\ md_progress' = ManifestProgress(a, g)
                /\ IF MdTerminal(status)
                   THEN /\ md_finished' = TRUE
                        /\ mdResult' = status
                        /\ IF MdRaises(status)
                           THEN \* raise vkt.UserError
                                /\ RuntimeFailed("md_failed")
                                /\ NoSleep
                                /\ loopDone' = loopDone
                           ELSE \* time.sleep(10); the while test ends the loop;
                                \* return urn
                                /\ SleepOnce
                                /\ Goto("render")
                                /\ loopDone' = TRUE
                   ELSE \* time.sleep(10), next probe
                        /\ SleepOnce
                        /\ Goto("md_step")
                        /\ UNCHANGED <<md_finished, mdResult, loopDone>>
    /\ UNCHANGED <<envVars, da_finished, da_final_status, file_size, da_status,
                   upVars, keyVars, finalizeSize, finalizeOk, daResult, daSuccessAt,
                   daProbeErrors, daRetryPending>>

\* APSresult.__init__: the viewer page is built from the token and the URN
Render ==
    /\ workflow = "cad"
    /\ pc = "render"
    /\ Goto("exit")
    /\ UNCHANGED <<envVars, progVars, statVars, upVars, keyVars, histVars, loopVars, calls,
                   lastAnswer, accepted>>

\* ------------------------------------------- deferred finalize, download
\* finalize_da_upload(token, OUTPUT_PDF_FILE.name, da_upload_key, file_size)
FinalizeArgs_PlaceholderKey == [object_name |-> OutputName, upload_key |-> phUploadKey]
FinalizeArgs == [object_name |-> OutputName, upload_key |-> da_upload_key]

finalize_da_upload ==
    /\ pc = "finalize"
    /\ \E a \in Answers :
        /\ Issue("finalize", a)
        /\ finalizeSize' = file_size
        /\ finalizeKey' = FinalizeArgs.upload_key
        /\ finalizeName' = FinalizeArgs.object_name
        /\ finalizeOk' = ~Raises(a)
        /\ IF Raises(a) THEN RequestFailed ELSE Goto("dl_signed")
    /\ UNCHANGED <<envVars, progVars, statVars, upVars, loopVars, phUploadKey,
                   output_pdf_url, da_upload_key, workItemOutput, mdResult, daResult,
                   daSuccessAt, loopDone, daProbeErrors, mdRetryPending,
                   daRetryPending>>

\* download_result_from_bucket: get_signed_url("read"), then the GET
DownloadSigned == SetupCall("dl_signed", "dl_get")
DownloadGet == SetupCall("dl_get", "exit")

Poll ==
    \/ MdSkip
    \/ MdProbe
    \/ DaSkip
    \/ DaProbe
    \/ Sleep
    \/ PostLoop
    \/ DaProbePdf
    \/ MdProbeViewer
    \/ MdProbeCad
    \/ Render

Finish ==
    \/ finalize_da_upload
    \/ DownloadSigned
    \/ DownloadGet

Run ==
    \/ Setup
    \/ Poll
    \/ Finish

Next == Run

Spec == Init /\ [][Next]_vars

\* ------------------------------------------- the token cache (src/tools.py)
\* @lru_cache(maxsize=1): the cache holds the token of one (client_id,
\* client_secret) pair, the one of the latest call that returned.
TokenCached_Never(cache, p) == FALSE
TokenCached(cache, p) == cache.pair = p

\* A call answered from the cache: no request is sent.
TokenHit(p) ==
    /\ tokenCalls < MaxTokenCalls
    /\ TokenCached(tokenCache, p)
    /\ tokenCalls' = tokenCalls + 1
    /\ lastToken' = [pair |-> p, token |-> tokenCache.token, exchanged |-> FALSE]
    /\ UNCHANGED <<tokenCache, exchanges, runVars, encVars>>

\* A call that runs the function body: the exchange, raise_for_status, and
\* on return the one cache slot is taken by the new entry.  A call that
\* raises leaves the cache as it was.
TokenMiss(p) ==
    /\ tokenCalls < MaxTokenCalls
    /\ ~TokenCached(tokenCache, p)
    /\ tokenCalls' = tokenCalls + 1
    /\ \E a \in Answers :
        IF Raises(a)
        THEN /\ lastToken' = [pair |-> p, token |-> 0, exchanged |-> FALSE]
             /\ UNCHANGED <<tokenCache, exchanges>>
        ELSE /\ exchanges' = [exchanges EXCEPT ![p] = @ + 1]
             /\ tokenCache' = [pair |-> p, token |-> tokenCalls + 1]
             /\ lastToken' = [pair |-> p, token |-> tokenCalls + 1, exchanged |-> TRUE]
    /\ UNCHANGED <<runVars, encVars>>

\* No workflow runs beside the token requests.
RunIdle ==
    /\ workflow = "cad"
    /\ inputExists = TRUE
    /\ bucketExists = FALSE
    /\ file_content = <<>>
    /\ RunStart

InitToken == RunIdle /\ TokenIdle /\ EncodeIdle

NextToken == \E p \in Pairs : TokenHit(p) \/ TokenMiss(p)

SpecToken == InitToken /\ [][NextToken]_vars

\* ------------------------------------------ the resource-name encoding
\* The URL-safe alphabet of base64 and its padding character.
Alphabet == <<"A", "B", "C", "D", "E", "F", "G", "H", "I", "J", "K", "L", "M",
              "N", "O", "P", "Q", "R", "S", "T", "U", "V", "W", "X", "Y", "Z",
              "a", "b", "c", "d", "e", "f", "g", "h", "i", "j", "k", "l", "m",
              "n", "o", "p", "q", "r", "s", "t", "u", "v", "w", "x", "y", "z",
              "0", "1", "2", "3", "4", "5", "6", "7", "8", "9", "-", "_">>
Pad == "="
Digit(d) == Alphabet[d + 1]

\* base64.urlsafe_b64encode: three bytes give four digits, a last group of
\* one or two bytes is filled up with padding.
RECURSIVE urlsafe_b64encode(_)
urlsafe_b64encode(bytes) ==
    IF Len(bytes) = 0 THEN <<>>
    ELSE IF Len(bytes) = 1
    THEN <<Digit(bytes[1] \div 4), Digit((bytes[1] % 4) * 16), Pad, Pad>>
    ELSE IF Len(bytes) = 2
    THEN <<Digit(bytes[1] \div 4),
           Digit((bytes[1] % 4) * 16 + bytes[2] \div 16),
           Digit((bytes[2] % 16) * 4), Pad>>
    ELSE <<Digit(bytes[1] \div 4),
           Digit((bytes[1] % 4) * 16 + bytes[2] \div 16),
           Digit((bytes[2] % 16) * 4 + bytes[3] \div 64),
           Digit(bytes[3] % 64)>>
         \o urlsafe_b64encode(SubSeq(bytes, 4, Len(bytes)))

\* str.strip(chars): the leading and the trailing occurrences are removed.
RECURSIVE lstrip(_, _)
lstrip(s, ch) ==
    IF Len(s) > 0 /\ s[1] = ch THEN lstrip(SubSeq(s, 2, Len(s)), ch) ELSE s
RECURSIVE rstrip(_, _)
rstrip(s, ch) ==
    IF Len(s) > 0 /\ s[Len(s)] = ch THEN rstrip(SubSeq(s, 1, Len(s) - 1), ch) ELSE s
strip(s, ch) == lstrip(rstrip(s, ch), ch)

\* safe_base64_encode(text), text given by its UTF-8 bytes
safe_base64_encode_NoStrip(text) == urlsafe_b64encode(text)
safe_base64_encode(text) == strip(urlsafe_b64encode(text), Pad)

\* The URN of an object id is computed, and computed again.
InitEncode ==
    /\ RunIdle
    /\ TokenIdle
    /\ encIn \in IdTexts
    /\ encOut = <<>>

Encode ==
    /\ Len(encOut) < 2
    /\ encOut' = Append(encOut, safe_base64_encode(encIn))
    /\ UNCHANGED <<encIn, runVars, tokenVars>>

NextEncode == Encode

SpecEncode == InitEncode /\ [][NextEncode]_vars
\* ================================================================ claims
TrackErrors == {"md_failed", "da_failed", "finalize_precondition"}
InLoop == pc \in {"md_step", "da_step", "sleep"}
\* The polling loop of main was entered: its first statement is the MD probe.
LoopEntered == calls["md_probe"] > 0

\* C1 (as claimed): in main, a workflow error of a failed track is reported
\* only when both tracks are terminal; while one track is non-terminal the
\* orchestrator goes on probing it and reports nothing.
C1_ErrorOnlyWhenBothTerminal ==
    (workflow = "main" /\ error \in TrackErrors) => (md_finished /\ da_finished)

\* C2 (as claimed): in main, with each track's probes eventually answered by
\* a terminal status, the polling loop is left only in the state where both
\* tracks are terminal, whichever track becomes terminal first.
C2_LoopLeftBothTerminal ==
    (workflow = "main" /\ LoopEntered /\ ~InLoop) => (md_finished /\ da_finished)

\* C3: in main, a track that is marked terminal is never probed again, and
\* once both tracks are terminal no status probe is issued at all.
C3_NoProbeAfterTerminal ==
    [][workflow = "main" =>
        /\ (md_finished => calls'["md_probe"] = calls["md_probe"])
        /\ (da_finished => calls'["da_probe"] = calls["da_probe"])
        /\ ((md_finished /\ da_finished) =>
                \A c \in LoopCalls : calls'[c] = calls[c])]_vars

\* C3 witness: MD became terminal first, DA was probed in later iterations
\* without MD being probed, and the loop was left with both terminal.
C3_Witness ==
    /\ workflow = "main"
    /\ pc = "post_loop"
    /\ md_finished /\ da_finished
    /\ calls["md_probe"] = 1
    /\ calls["da_probe"] = MaxProbes

\* C4 (as claimed): in main, a probe error of one track does not end the
\* loop and the track whose probe failed is probed again on a later
\* iteration; so no run ends while a swallowed probe error of a track is
\* still waiting for its retry.
C4_FailedProbeRetried ==
    (workflow = "main" /\ pc = "exit") => (~mdRetryPending /\ ~daRetryPending)

\* C5: the deferred finalize is only ever requested with the bytesUploaded
\* of the WorkItem payload whose status was success.
C5_FinalizeSizeFromSuccessPayload ==
    calls["finalize"] > 0 =>
        /\ daResult.status = "success"
        /\ finalizeSize = daResult.bytesUploaded

\* C5 witness: a finalize was requested for a success payload of MaxBytes bytes.
C5_Witness ==
    /\ calls["finalize"] = 1
    /\ daResult.status = "success"
    /\ daResult.bytesUploaded = MaxBytes
    /\ finalizeSize = MaxBytes

\* C6 (as claimed): when the first k-1 WorkItem probes return a non-terminal
\* status and the k-th returns success with bytesUploaded = n (and, in main,
\* the translation track reaches success too), the run issues exactly k
\* WorkItem probes and requests the deferred finalize exactly once, with
\* size n.
C6_KProbesThenOneFinalize ==
    ( /\ pc = "exit"
      /\ daResult.status = "success"
      /\ ~daProbeErrors
      /\ (workflow = "main" => mdResult = "success") )
    => ( /\ calls["da_probe"] = daSuccessAt
         /\ calls["finalize"] = 1
         /\ finalizeSize = daResult.bytesUploaded )

Downloaded == calls["dl_signed"] > 0 \/ calls["dl_get"] > 0

\* C7: in main, the download is requested only after the deferred finalize
\* returned normally, the finalize only after both tracks were answered
\* success, and a track answered with a non-success terminal status rules
\* out both the finalize and the download.
C7_FinalizeThenDownload ==
    workflow = "main" =>
        /\ (Downloaded => finalizeOk)
        /\ (calls["finalize"] > 0 =>
                (mdResult = "success" /\ daResult.status = "success"))
        /\ ((mdResult = "failed"
             \/ daResult.status \in {"failed", "cancelled", "failedUpload"})
                => (calls["finalize"] = 0 /\ ~Downloaded))

\* C7 witness: a complete run of main, finalize then download.
C7_Witness ==
    /\ workflow = "main"
    /\ pc = "exit"
    /\ error = "none"
    /\ finalizeOk
    /\ calls["dl_get"] = 1

CallOrder == <<"auth", "bucket", "up_presign", "up_put", "up_finalize",
               "ph_presign", "ph_put", "ph_finalize", "md_submit",
               "signed_read", "signed_upload", "da_submit",
               "md_probe", "da_probe", "da_report",
               "finalize", "dl_signed", "dl_get">>
Pos(c) == CHOOSE i \in 1..Len(CallOrder) : CallOrder[i] = c
Non2xx(code) == code < 200 \/ code > 299
\* The documented "already exists" answers.
Documented409(ans) == ans.call \in {"bucket", "ph_presign"} /\ ans.code = 409

C10_Bucket409IsSuccess ==
    /\ (lastAnswer.call = "bucket" /\ lastAnswer.code \in {200, 409})
            => (pc = "up_presign" /\ error = "none")
    /\ (calls["bucket"] > 0 /\ calls["up_presign"] = 0 /\ pc = "exit")
            => lastAnswer.code \notin {200, 409}

\* C10 witness: the bucket existed, the answer was 409, the upload is next.
C10_Witness ==
    /\ bucketExists
    /\ lastAnswer = [call |-> "bucket", code |-> 409]
    /\ pc = "up_presign"

UploadCalls == {"up_presign", "up_put", "up_finalize"}

\* C12: the upload issues presign, PUT and finalize in that order, each at
\* most once and each only after the one before was accepted; a step that
\* fails ends the run with the request error; and no call that follows the
\* upload (translation job, signed URLs, ...) is issued unless the finalize
\* was accepted.
C12_UploadAllOrNothing ==
    /\ \A c \in UploadCalls : calls[c] <= 1
    /\ calls["up_put"] > 0 => "up_presign" \in accepted
    /\ calls["up_finalize"] > 0 => "up_put" \in accepted
    /\ \A c \in Calls :
        (Pos(c) > Pos("up_finalize") /\ calls[c] > 0) => "up_finalize" \in accepted
    /\ (lastAnswer.call \in UploadCalls /\ lastAnswer.call \notin accepted)
        => (pc = "exit" /\ error = "request_failed")

\* C12 witness: the bytes were transferred, the finalize was refused, and
\* the run ended without a translation job.
C12_Witness ==
    /\ "up_put" \in accepted
    /\ lastAnswer = [call |-> "up_finalize", code |-> 500]
    /\ pc = "exit"
    /\ calls["md_submit"] = 0

\* The store's own read path.
ReadBack(obj) == obj.bytes

\* C13: after an accepted finalize of the upload, the object read back from
\* the store holds the bytes of the payload, and the finalize request
\* carried as size the number of bytes of the PUT's body.
C13_UploadRoundTrip ==
    "up_finalize" \in accepted =>
        /\ stored.present
        /\ ReadBack(stored) = file_content
        /\ upSize = Len(putData)

\* C13 witness: a payload of MaxLen bytes was uploaded and finalized.
C13_Witness ==
    /\ "up_finalize" \in accepted
    /\ Len(file_content) = MaxLen
    /\ MaxLen > 0
    /\ stored = [present |-> TRUE, bytes |-> file_content]

PlaceholderCalls == {"ph_presign", "ph_put", "ph_finalize"}

\* C14: when the placeholder's write-target request is answered 409 the step
\* ends there: no byte transfer, no finalize, no error, the run goes on;
\* otherwise the PUT's body is empty and the finalize is requested with
\* size 0.
C14_PlaceholderNoOpOr0 ==
    /\ (lastAnswer = [call |-> "ph_presign", code |-> 409])
        => ( /\ calls["ph_put"] = 0
             /\ calls["ph_finalize"] = 0
             /\ error = "none"
             /\ pc = AfterPlaceholder )
    /\ (calls["ph_put"] > 0 \/ calls["ph_finalize"] > 0)
        => "ph_presign" \in accepted
    /\ phPutData = <<>>
    /\ phSize = 0
    /\ ("ph_put" \in accepted /\ lastAnswer.call = "ph_put") => pc = "ph_finalize"

\* C14 witness: the placeholder existed already and the run went on past it.
C14_Witness ==
    /\ workflow = "pdf"
    /\ calls["ph_presign"] = 1
    /\ "ph_presign" \notin accepted
    /\ calls["ph_put"] = 0
    /\ calls["signed_read"] = 1
    /\ "signed_read" \in accepted

\* C15 (as claimed): within one process at most one successful exchange is
\* made for each credential pair, also when requests for other pairs occur
\* in between.
C15_OneExchangePerPair == \A p \in Pairs : exchanges[p] <= 1

\* C15 (amended): the cache holds the token of one credential pair, the one
\* of the latest request that returned.  A request with that pair returns
\* the cached token without an exchange; a request with another pair makes
\* an exchange and, when it succeeds, its token takes the place of the
\* cached one; a request whose exchange fails leaves the cache as it was.
C15_LatestPairCached ==
    [][\A p \in Pairs :
        (tokenCalls' = tokenCalls + 1 /\ lastToken'.pair = p) =>
            IF tokenCache.pair = p
            THEN /\ exchanges' = exchanges
                 /\ tokenCache' = tokenCache
                 /\ lastToken'.token = tokenCache.token
                 /\ ~lastToken'.exchanged
            ELSE \/ /\ lastToken'.exchanged
                    /\ exchanges' = [exchanges EXCEPT ![p] = @ + 1]
                    /\ tokenCache' = [pair |-> p, token |-> lastToken'.token]
                    /\ lastToken'.token # tokenCache.token
                 \/ /\ ~lastToken'.exchanged
                    /\ lastToken'.token = 0
                    /\ exchanges' = exchanges
                    /\ tokenCache' = tokenCache]_vars

\* C15 witness: requests A, B, A, A: the second request for A made a second
\* exchange for A, the third was answered from the cache.
C15_Witness ==
    /\ exchanges["A"] = 2
    /\ exchanges["B"] = 1
    /\ tokenCalls = 4
    /\ lastToken = [pair |-> "A", token |-> tokenCache.token, exchanged |-> FALSE]

\* C16 (as claimed): in the single-job workflows a status probe that fails
\* with a network error does not end the workflow: the loop goes on to the
\* next probe.
C16_SingleJobProbeRetried ==
    ( /\ workflow \in {"pdf", "viewer", "cad"}
      /\ lastAnswer.call \in {"md_probe", "da_probe"}
      /\ lastAnswer.code = NetErr )
    => (pc # "exit" /\ error = "none")

IsUrnChar(ch) == \E d \in 0..63 : Digit(d) = ch

\* C17: encoding the same object id twice gives the same URN, and the URN
\* has no "=": it is made of the digits of the URL-safe alphabet only, as
\* many as the id's bytes need.
C17_UrnDeterministicUnpadded ==
    \A i \in 1..Len(encOut) :
        /\ encOut[i] = encOut[1]
        /\ \A k \in 1..Len(encOut[i]) : encOut[i][k] # "=" /\ IsUrnChar(encOut[i][k])
        /\ Len(encOut[i]) = (4 * Len(encIn) + 2) \div 3

\* C17 witness: an id of a length that base64 pads with "==" was encoded twice.
C17_Witness ==
    /\ Len(encOut) = 2
    /\ Len(encIn) % 3 = 1

MdTrack == IF md_finished THEN 2 ELSE IF "md_submit" \in accepted THEN 1 ELSE 0
DaTrack == IF da_finished THEN 2 ELSE IF "da_submit" \in accepted THEN 1 ELSE 0

\* The placeholder step returned: its finalize was accepted, or its
\* write-target request was answered 409 and nothing followed.
PlaceholderDone ==
    \/ "ph_finalize" \in accepted
    \/ (calls["ph_presign"] = 1 /\ "ph_presign" \notin accepted /\ calls["ph_put"] = 0)

\* C19: a track's state never moves back (not submitted, polling,
\* terminal); a track is probed only after its job was accepted; each job
\* is submitted at most once, the WorkItem only after the upload's finalize
\* was accepted and the placeholder step returned; a terminal track is
\* never probed again.
C19_TrackMovesForward ==
    [][ /\ calls'["md_probe"] > 0 => "md_submit" \in accepted
        /\ calls'["da_probe"] > 0 => "da_submit" \in accepted
        /\ calls'["md_submit"] <= 1
        /\ calls'["da_submit"] <= 1
        /\ calls'["da_submit"] > 0 => ("up_finalize" \in accepted /\ PlaceholderDone)
        /\ workflow = "main" =>
            /\ MdTrack' >= MdTrack
            /\ DaTrack' >= DaTrack
            /\ MdTrack = 2 => calls'["md_probe"] = calls["md_probe"]
            /\ DaTrack = 2 => calls'["da_probe"] = calls["da_probe"]
            /\ MdTrack' = 2 => calls'["md_probe"] > 0
            /\ DaTrack' = 2 => calls'["da_probe"] > 0 ]_vars

\* C19 witness: in main both tracks went through the three states, the
\* translation track first.
C19_Witness ==
    /\ workflow = "main"
    /\ MdTrack = 2
    /\ DaTrack = 2
    /\ calls["md_submit"] = 1
    /\ calls["da_submit"] = 1
    /\ calls["md_probe"] = 1
    /\ calls["da_probe"] = 2
    /\ calls["ph_finalize"] = 1

\* A probe of the step returned a status (it did not raise).
MdReturned == calls'["md_probe"] # calls["md_probe"] /\ ~Raises(lastAnswer'.code)
DaReturned ==
    /\ calls'["da_probe"] # calls["da_probe"]
    /\ ~(lastAnswer'.call = "da_probe" /\ Raises(lastAnswer'.code))

\* C20: in main a track's terminal mark is set only by a step in which its
\* own probe returned, and then exactly when the returned status is
\* terminal: success, failed, cancelled or failedUpload for the WorkItem,
\* success or failed for the translation; any other status leaves the mark
\* unset.
C20_TerminalIffTerminalStatus ==
    [][workflow = "main" =>
        /\ md_finished' # md_finished => MdReturned
        /\ da_finished' # da_finished => DaReturned
        /\ MdReturned => (md_finished' <=> md_status' \in {"success", "failed"})
        /\ DaReturned =>
            (da_finished' <=>
                da_status' \in {"success", "failed", "cancelled", "failedUpload"}) ]_vars

\* C20 witness: the translation probe returned "timeout" and the track is
\* still polling; the WorkItem probe returned "cancelled" and the track is
\* terminal.
C20_Witness ==
    /\ workflow = "main"
    /\ md_status = "timeout"
    /\ ~md_finished
    /\ da_status = "cancelled"
    /\ da_finished

\* The sleeps of main's loop so far.
Sleeps == sleepTime \div SleepInterval

\* C21: in main every sleep of the loop lasts the fixed interval of 10; the
\* step that ends an iteration sleeps exactly when a track is still
\* non-terminal and then the next iteration begins, and it does not sleep
\* when both tracks are terminal, where the loop ends; no other step
\* sleeps; so k iterations begun are separated by exactly k - 1 sleeps.
C21_OneSleepBetweenIterations ==
    [][workflow = "main" =>
        /\ sleepTime' = 10 * Sleeps'
        /\ IF pc = "sleep"
           THEN IF ~md_finished \/ ~da_finished
                THEN Sleeps' = Sleeps + 1 /\ pc' = "md_step"
                ELSE Sleeps' = Sleeps /\ pc' = "post_loop"
           ELSE Sleeps' = Sleeps
        /\ iteration' > iteration => (pc = "md_step" /\ Sleeps = iteration)
        /\ iteration' > 0 => Sleeps' \in {iteration' - 1, iteration'}
        /\ pc' # "md_step" => Sleeps' = (IF iteration' = 0 THEN 0 ELSE iteration' - 1) ]_vars

\* C21 witness: MaxProbes iterations with MaxProbes - 1 sleeps between
\* them, and the loop was left by its test without a further sleep.
C21_Witness ==
    /\ workflow = "main"
    /\ pc = "post_loop"
    /\ iteration = MaxProbes
    /\ sleepTime = 10 * (MaxProbes - 1)

\* C22: process_cad_file returns its URN, and the page is rendered with it,
\* only when a translation probe returned success; a probe that returns
\* failed ends the call with the user error and nothing is returned or
\* rendered; a probe that returns any other status is followed by one sleep
\* of 10 and the next probe.
C22_CadReturnsAfterSuccess ==
    [][workflow = "cad" =>
        /\ pc' = "render" => (md_status' = "success" /\ mdResult' = "success")
        /\ (pc' = "exit" /\ error' = "none") => (pc \in {"render", "exit"})
        /\ (MdReturned /\ md_status' = "success") => (pc' = "render" /\ error' = "none")
        /\ (MdReturned /\ md_status' = "failed")
            => (pc' = "exit" /\ error' = "md_failed" /\ sleepTime' = sleepTime)
        /\ (MdReturned /\ md_status' \notin {"success", "failed"})
            => ( /\ pc' = "md_step"
                 /\ error' = "none"
                 /\ sleepTime' = sleepTime + 10 )
        /\ pc = "md_step" => calls'["md_probe"] = calls["md_probe"] + 1
        /\ error = "md_failed" => pc' = "exit" ]_vars

\* C22 witness: a first probe did not end the loop, the call slept and
\* probed again, the second probe returned success, and the page was
\* rendered.
C22_Witness ==
    /\ workflow = "cad"
    /\ pc = "exit"
    /\ error = "none"
    /\ md_status = "success"
    /\ calls["md_probe"] = 2
    /\ ~mdRetryPending
    /\ sleepTime = 20

\* C23: in main the step that marks the WorkItem track terminal records the
\* payload its probe returned as the final status, with one of the four
\* terminal statuses; the record is not changed afterwards; while the track
\* is not terminal nothing is recorded; so when the loop is left by its
\* test a final status is recorded and the check after the loop never reads
\* a missing one.
C23_FinalStatusRecorded ==
    [][workflow = "main" =>
        /\ (da_finished' /\ ~da_finished)
            => ( /\ DaReturned
                 /\ da_final_status' = daResult'
                 /\ da_final_status'.status = da_status' )
        /\ da_finished => (da_finished' /\ da_final_status' = da_final_status)
        /\ da_finished' <=> da_final_status' # NoStatus
        /\ da_finished'
            => da_final_status'.status \in {"success", "failed", "cancelled", "failedUpload"}
        /\ pc' = "post_loop" => da_finished'
        /\ error' # "type_error" ]_vars

\* C23 witness: the loop was left by its test with the success payload of
\* MaxBytes - 1 bytes recorded.
C23_Witness ==
    /\ workflow = "main"
    /\ pc = "post_loop"
    /\ da_final_status = daResult
    /\ da_final_status.status = "success"
    /\ da_final_status.bytesUploaded = MaxBytes - 1
    /\ da_final_status.reportUrl

\* C24: the WorkItem's Result url is the write URL of the one signed-upload
\* request of the run, and the deferred finalize is requested with the
\* upload key that came in the same answer and with the name of the object
\* that answer was for; it is never the upload key of the placeholder's
\* own upload.
C24_FinalizeKeyOfWorkItemTarget ==
    /\ calls["signed_upload"] <= 1
    /\ calls["da_submit"] > 0 =>
        /\ workItemOutput = output_pdf_url
        /\ workItemOutput.kind = "url"
        /\ workItemOutput.request = "signed_upload"
    /\ calls["finalize"] > 0 =>
        /\ finalizeKey = da_upload_key
        /\ finalizeKey.kind = "key"
        /\ finalizeKey.request = workItemOutput.request
        /\ finalizeKey.object = workItemOutput.object
        /\ finalizeName = finalizeKey.object
        /\ finalizeName = OutputName
        /\ finalizeKey # phUploadKey
        /\ finalizeKey.request # "ph_presign"

\* C24 witness: the placeholder was uploaded with a key of its own, and the
\* deferred finalize was accepted.
C24_Witness ==
    /\ phUploadKey.request = "ph_presign"
    /\ "ph_finalize" \in accepted
    /\ calls["finalize"] = 1
    /\ finalizeOk
    /\ finalizeKey.request = "signed_upload"
====
